---- MODULE Spec2Model ----
(***************************************************************************)
(* Waterfall / bridge chart layout of Dashboards/generate_mockups.py.      *)
(*                                                                         *)
(* The generic helper _waterfall and the three inline copies of its loop   *)
(* (db_production_variance, db_pl_waterfall, db_cash_flow) are modelled as *)
(* one sequential program: a call fixes the arguments, the layout loop     *)
(* runs one iteration per step, ax.bar draws the bars, the connector loop  *)
(* runs one iteration per adjacent pair of bars, and the call returns.     *)
(*                                                                         *)
(* Numbers are integers, so the arithmetic of the model is exact.  The     *)
(* hard-coded dashboard data is held in fixed point: tenths of $M for      *)
(* db_production_variance and db_cash_flow, hundredths of $M for           *)
(* db_pl_waterfall.  Loop indices are Python's (0-based); sequences are    *)
(* 1-based, so step i of the code is element i + 1 of a sequence.          *)
(*                                                                         *)
(* Beside the layout the module holds the two generator scripts (the       *)
(* import that creates OUTPUT_DIR, main() of Dashboards and the __main__   *)
(* block of CubeViews, a generator's rendering, with what it draws from    *)
(* numpy's global generator, and its save) and the grid of draw_cubeview   *)
(* of CubeViews/generate_mockups.py: the loop over the rows and the        *)
(* background and text colour of each value cell.  Each part has its own   *)
(* variables and its own specification; the variables of the other parts   *)
(* stay as Init left them.                                                 *)
(***************************************************************************)
EXTENDS Integers, Sequences, FiniteSets, TLC

\* Bounds of the model: the longest step list handed to _waterfall and the
\* largest magnitude of a value or of start_val.
MaxLen == 4
MaxAbs == 1

\* Colour palette (lines 22-24).
ACCENT_BLUE == "#006EC7"
GREEN == "#28A745"
RED == "#DC3545"

\* Python's abs on integers.
Abs(x) == IF x < 0 THEN -x ELSE x

\* The numbers a caller of _waterfall may pass, and the step lists.
Vals == (-MaxAbs)..MaxAbs
ValueLists == UNION {[1..k -> Vals] : k \in 0..MaxLen}

\* Names of the four functions that hold a copy of the layout loop.
Inline == {"db_production_variance", "db_pl_waterfall", "db_cash_flow"}

VARIABLES
    fn,          \* the function being executed, "none" between calls
    pc,          \* "idle", "loop", "connect" or "done"
    n,           \* n = len(categories)
    values,      \* the values / vals list
    start_val,   \* _waterfall's start_val argument (0 in the inline copies)
    running,     \* _waterfall: the loop's accumulator; inline: the pre-computed total
    run,         \* inline copies: the loop's accumulator (0 in _waterfall)
    i,           \* index of the loop that is executing
    bottoms, bar_vals, colors,   \* the three output lists
    connectors,  \* level `top` of each connector segment drawn so far
    labels,      \* text of the value label drawn above each bar
    prev,        \* history: <<>> or <<r>>, r the arguments and the output of
                 \* a completed _waterfall call that is about to be repeated
    before,      \* history: the accumulator on entry to each loop iteration
    after        \* history: the accumulator on exit from each loop iteration

vars == <<fn, pc, n, values, start_val, running, run, i, bottoms, bar_vals,
          colors, connectors, labels, prev, before, after>>

\* State of a run of one of the two generator scripts
\* (Dashboards/generate_mockups.py, CubeViews/generate_mockups.py).
VARIABLES
    script,      \* "Dashboards", "CubeViews", or "none" when no script runs
    caller,      \* who calls the generators: "main" (the script's own list)
                 \* or "any" (a caller that imported the module)
    mpc,         \* "off", "import", "start", "main", "gen", "save", "done"
                 \* or "raised"
    gi,          \* number of generators the caller has got back from
    dir,         \* OUTPUT_DIR: "absent", "present" (it was there before the
                 \* run) or "created" (os.makedirs of this run made it)
    saved,       \* paths written by savefig, in order
    out,         \* lines printed, in order
    raisedIn,    \* "" or the callee whose exception left the script
    entropy,     \* the seed the operating system gave numpy at import
    rng,         \* state of numpy's process-global generator
    calls,       \* history: the generators invoked, in order
    content      \* history: for each invoked generator, the state of the
                 \* random stream its random data was drawn from

rvars == <<script, caller, mpc, gi, dir, saved, out, raisedIn, entropy, rng,
           calls, content>>

\* State of one call of draw_cubeview (CubeViews/generate_mockups.py).
VARIABLES
    cpc,                    \* "off", "rows", "cells" or "done"
    input_cols,             \* argument: None or a set of column indices
    show_variance_colors,   \* argument
    variance_col_indices,   \* argument: None or a set of column indices
    r_idx,                  \* index of the row being drawn, -1 before the first
    row,                    \* the row being drawn: its flags and its length
    c_idx,                  \* index of the value cell being drawn, -1 before
    val,                    \* the value of that cell
    bg,                     \* background of the row
    cell_bg,                \* facecolor of the value cell's rectangle
    txt_color               \* color of the value cell's text

cvars == <<cpc, input_cols, show_variance_colors, variance_col_indices, r_idx,
           row, c_idx, val, bg, cell_bg, txt_color>>

\* Everything but the state of the waterfall layout.
others == <<rvars, cvars>>

allvars == <<vars, rvars, cvars>>

\* ------------------------------------------------------------------------
\* Hard-coded data of the three dashboards.

\* vals of db_production_variance, in tenths of $M (line 384).
PV_vals == <<81, 6, 3, -1, -2, -4, 1, 1, 0>>
\* vals of db_pl_waterfall, in hundredths of $M (line 460).
PL_vals == <<384, 152, -72, -35, 12, -8, 40, 0>>
\* vals of db_cash_flow, in tenths of $M (line 582).
CF_vals == <<277, 182, -125, -41, -8, 0>>

\* len(cats) of each dashboard (lines 383, 458-459, 581).
PV_ncats == 9
PL_ncats == 8
CF_ncats == 6

\* The literal each dashboard seeds `running` with (lines 386, 461, 583).
PV_seed == 81
PL_seed == 384
CF_seed == 277

\* Variant: the literal of db_pl_waterfall is a stale copy of another chart's.
SeedOfStale(f) ==
    CASE f = "db_production_variance" -> PV_seed
      [] f = "db_pl_waterfall" -> PV_seed
      [] f = "db_cash_flow" -> CF_seed

SeedOf(f) ==
    CASE f = "db_production_variance" -> PV_seed
      [] f = "db_pl_waterfall" -> PL_seed
      [] f = "db_cash_flow" -> CF_seed

\* `for v in vals[1:-1]: running += v` started from `seed`.
RECURSIVE FoldInterior(_, _, _)
FoldInterior(vs, k, acc) ==
    IF k >= Len(vs) THEN acc ELSE FoldInterior(vs, k + 1, acc + vs[k])

\* Variant: the pre-computing loop runs over vals[:-1], start included.
PrecomputedRunningFromStart(seed, vs) == FoldInterior(vs, 1, seed)

\* The pre-computed ending total (lines 386-388, 461-463, 583-585).
PrecomputedRunning(seed, vs) == FoldInterior(vs, 2, seed)

\* ------------------------------------------------------------------------
\* The pieces of one loop iteration.

\* Variant: a decrease bar is not shifted down by its delta.
InteriorBottomNoShift(acc, v) == acc

\* Interior step, bottoms.append(...): lines 351 / 355.
InteriorBottom(acc, v) == IF v >= 0 THEN acc ELSE acc + v

\* Variant: the height of a decrease bar keeps its sign.
InteriorHeightSigned(v) == v

\* Interior step, bar_vals.append(...): lines 352 / 356.
InteriorHeight(v) == IF v >= 0 THEN v ELSE Abs(v)

\* Variant: a zero delta is coloured as a decrease.
InteriorColorStrict(v) == IF v > 0 THEN GREEN ELSE RED

\* Interior step, colors.append(...): lines 353 / 357.
InteriorColor(v) == IF v >= 0 THEN GREEN ELSE RED

\* Variant: the accumulator adds the magnitude of the delta.
AccumulateMagnitude(acc, v) == acc + Abs(v)

\* Interior step, `running += v` / `run += v` (line 358).
Accumulate(acc, v) == acc + v

\* Variant: the last bar has the height of its own value.
WaterfallEndHeightOwnValue(acc, v) == v

\* _waterfall, last step: `running + v if v != 0 else running` (line 347).
WaterfallEndHeight(acc, v) == IF v # 0 THEN acc + v ELSE acc

\* _waterfall: `running = start_val` (line 336).
WaterfallInitialRunning(sv, vs) == sv

\* Variant: the loop stops one step early.
LoopCountSkipLast(vs) == Len(vs) - 1

\* `for i, v in enumerate(values)`: the number of iterations (line 340).
LoopCount(vs) == Len(vs)

\* Variant: the loop stores the height of the bar back into its step.
ValuesAfterStepWriteBack(vs, k, h) == [vs EXCEPT ![k + 1] = h]

\* `values` after iteration k of the layout loop, which emitted a bar of
\* height h: the loop body assigns to no element of its inputs
\* (lines 340-358).
ValuesAfterStep(vs, k, h) == vs

\* Variant: the last pair of bars gets no connector.
ConnectorCountShort(m) == m - 2

\* `for i in range(n - 1)`: the number of connector segments (line 368).
ConnectorCount(m) == m - 1

\* Connector i: `top = bottoms[i] + bar_vals[i]` (line 369).
ConnectorTop(bs, hs, k) == bs[k + 1] + hs[k + 1]

\* ------------------------------------------------------------------------
\* Value labels.

\* Python's f"{x:.<d>f}" for a number held as the integer x in units of
\* 1/scale, where scale is 1 or 10^d: the sign, the integer part, the point
\* and d digits.
Digits(x, d) == IF d = 2 /\ x < 10 THEN "0" \o ToString(x) ELSE ToString(x)

FormatFixed(x, scale, d) ==
    (IF x < 0 THEN "-" ELSE "")
        \o ToString(Abs(x) \div scale) \o "."
        \o Digits(IF scale = 1 THEN 0 ELSE Abs(x) % scale, d)

\* Units of the numbers of each function (see the head of the module) and
\* the precision of its format specs (".1f" at lines 363, 409-413, 603-605,
\* ".2f" at lines 482-486).
ScaleOf(f) ==
    CASE f = "_waterfall" -> 1
      [] f = "db_pl_waterfall" -> 100
      [] OTHER -> 10

DecimalsOf(f) == IF f = "db_pl_waterfall" THEN 2 ELSE 1

\* Variant: a non-negative delta is printed without its sign.
InlineSignNone(v) == ""

\* Inline copies: `'+' if v >= 0 else ''` (lines 413, 486, 605).
InlineSign(v) == IF v >= 0 THEN "+" ELSE ""

\* _waterfall: f"{v:+.1f}" (line 363), the sign always printed.
PlusFormat(v, scale, d) ==
    (IF v >= 0 THEN "+" ELSE "") \o FormatFixed(v, scale, d)

\* The label of bar idx (0-based) of function f: line 363 in _waterfall with
\* the default fmt = "${}M", lines 408-413, 481-486, 603-605 in the copies.
LabelText(f, idx, m, vs, hs, tot) ==
    IF f = "_waterfall" THEN
        IF idx > 0 /\ idx < m - 1
        THEN "$" \o PlusFormat(vs[idx + 1], ScaleOf(f), DecimalsOf(f)) \o "M"
        ELSE "$" \o FormatFixed(hs[idx + 1], ScaleOf(f), DecimalsOf(f)) \o "M"
    ELSE
        IF idx = 0 THEN
            "$" \o FormatFixed(IF f = "db_cash_flow" THEN vs[1] ELSE hs[idx + 1],
                               ScaleOf(f), DecimalsOf(f)) \o "M"
        ELSE IF idx = m - 1 THEN
            "$" \o FormatFixed(tot, ScaleOf(f), DecimalsOf(f)) \o "M"
        ELSE
            InlineSign(vs[idx + 1])
                \o FormatFixed(vs[idx + 1], ScaleOf(f), DecimalsOf(f)) \o "M"

\* ------------------------------------------------------------------------
\* No waterfall function is executing.
WaterfallIdle ==
    /\ fn = "none" /\ pc = "idle"
    /\ n = 0 /\ values = <<>> /\ start_val = 0
    /\ running = 0 /\ run = 0 /\ i = 0
    /\ bottoms = <<>> /\ bar_vals = <<>> /\ colors = <<>>
    /\ connectors = <<>> /\ before = <<>> /\ after = <<>>
    /\ labels = <<>> /\ prev = <<>>

\* Python's None for an optional set of column indices, and a set given.
NoCols == [given |-> FALSE, cols |-> {}]
SomeCols(S) == [given |-> TRUE, cols |-> S]

\* A value of a grid cell: a str, or a number with the text str() gives
\* it.  The text is the sequence of its characters.
StrVal(t) == [isstr |-> TRUE, text |-> t]
NumVal(t) == [isstr |-> FALSE, text |-> t]

\* No script is running.
RunOff ==
    /\ script = "none" /\ caller = "none" /\ mpc = "off" /\ gi = 0
    /\ dir = "absent" /\ saved = <<>> /\ out = <<>> /\ raisedIn = ""
    /\ entropy = 0 /\ rng = [seed |-> <<"os", 0>>, pos |-> 0]
    /\ calls = <<>> /\ content = <<>>

\* draw_cubeview is not executing.
CubeOff ==
    /\ cpc = "off" /\ input_cols = NoCols /\ show_variance_colors = FALSE
    /\ variance_col_indices = NoCols /\ r_idx = -1
    /\ row = [bold |-> FALSE, section |-> FALSE, separator |-> FALSE,
              nvalues |-> 0]
    /\ c_idx = -1 /\ val = StrVal(<<>>)
    /\ bg = "" /\ cell_bg = "" /\ txt_color = ""

Init == WaterfallIdle /\ RunOff /\ CubeOff

\* Variant: the connector levels are kept in a list that outlives the call.
FreshKeepsConnectors ==
    /\ i' = 0
    /\ bottoms' = <<>> /\ bar_vals' = <<>> /\ colors' = <<>>
    /\ connectors' = connectors /\ before' = <<>> /\ after' = <<>>
    /\ labels' = <<>>

\* The locals a call starts with: i and the empty lists (lines 337-339).
Fresh ==
    /\ i' = 0
    /\ bottoms' = <<>> /\ bar_vals' = <<>> /\ colors' = <<>>
    /\ connectors' = <<>> /\ before' = <<>> /\ after' = <<>>
    /\ labels' = <<>>

\* A call _waterfall(ax, categories, values, start_val, ...) with one
\* category per value, up to the first loop iteration (lines 333-339).
Call_waterfall ==
    /\ pc = "idle" /\ prev = <<>>
    /\ \E vs \in ValueLists, sv \in Vals :
          /\ values' = vs
          /\ n' = Len(vs)
          /\ start_val' = sv
          /\ running' = WaterfallInitialRunning(sv, vs)
    /\ fn' = "_waterfall" /\ pc' = "loop" /\ run' = 0
    /\ prev' = <<>>
    /\ Fresh
    /\ UNCHANGED others

\* A second call of _waterfall with the arguments of the call recorded in
\* prev (lines 333-339).
Call_waterfall_again ==
    /\ pc = "idle" /\ prev # <<>>
    /\ values' = prev[1].values
    /\ n' = prev[1].n
    /\ start_val' = prev[1].start_val
    /\ running' = WaterfallInitialRunning(prev[1].start_val, prev[1].values)
    /\ fn' = "_waterfall" /\ pc' = "loop" /\ run' = 0
    /\ prev' = prev
    /\ Fresh
    /\ UNCHANGED others

\* One iteration of `for i, v in enumerate(values)` in _waterfall
\* (lines 340-358).
Loop_waterfall ==
    /\ fn = "_waterfall" /\ pc = "loop" /\ i < LoopCount(values)
    /\ LET v == values[i + 1] IN
          IF i = 0 THEN
              /\ bottoms' = Append(bottoms, 0)
              /\ bar_vals' = Append(bar_vals, v)
              /\ colors' = Append(colors, ACCENT_BLUE)
              /\ running' = running
          ELSE IF i = n - 1 THEN
              /\ bottoms' = Append(bottoms, 0)
              /\ bar_vals' = Append(bar_vals, WaterfallEndHeight(running, v))
              /\ colors' = Append(colors, ACCENT_BLUE)
              /\ running' = running
          ELSE
              /\ bottoms' = Append(bottoms, InteriorBottom(running, v))
              /\ bar_vals' = Append(bar_vals, InteriorHeight(v))
              /\ colors' = Append(colors, InteriorColor(v))
              /\ running' = Accumulate(running, v)
    /\ values' = ValuesAfterStep(values, i, bar_vals'[i + 1])
    /\ before' = Append(before, running)
    /\ after' = Append(after, running')
    /\ i' = i + 1
    /\ UNCHANGED <<fn, pc, n, start_val, run, connectors, labels, prev>>
    /\ UNCHANGED others

\* The head of an inline copy: vals, the pre-computed `running`, n and run.
CallInline(f, vs, ncats) ==
    /\ pc = "idle" /\ prev = <<>>
    /\ fn' = f /\ pc' = "loop"
    /\ values' = vs
    /\ n' = ncats
    /\ start_val' = 0
    /\ running' = PrecomputedRunning(SeedOf(f), vs)
    /\ run' = vs[1]
    /\ prev' = <<>>
    /\ Fresh
    /\ UNCHANGED others

\* db_production_variance, lines 383-392.
Call_db_production_variance ==
    CallInline("db_production_variance", PV_vals, PV_ncats)

\* db_pl_waterfall, lines 458-465.
Call_db_pl_waterfall == CallInline("db_pl_waterfall", PL_vals, PL_ncats)

\* db_cash_flow, lines 581-587.
Call_db_cash_flow == CallInline("db_cash_flow", CF_vals, CF_ncats)

\* One iteration of `for i, v in enumerate(vals)` in an inline copy.
LoopInline(f) ==
    /\ fn = f /\ pc = "loop" /\ i < LoopCount(values)
    /\ LET v == values[i + 1] IN
          IF i = 0 THEN
              /\ bottoms' = Append(bottoms, 0)
              /\ bar_vals' = Append(bar_vals, v)
              /\ colors' = Append(colors, ACCENT_BLUE)
              /\ run' = run
          ELSE IF i = n - 1 THEN
              /\ bottoms' = Append(bottoms, 0)
              /\ bar_vals' = Append(bar_vals, running)
              /\ colors' = Append(colors, ACCENT_BLUE)
              /\ run' = run
          ELSE
              /\ bottoms' = Append(bottoms, InteriorBottom(run, v))
              /\ bar_vals' = Append(bar_vals, InteriorHeight(v))
              /\ colors' = Append(colors, InteriorColor(v))
              /\ run' = Accumulate(run, v)
    /\ before' = Append(before, run)
    /\ after' = Append(after, run')
    /\ i' = i + 1
    /\ UNCHANGED <<fn, pc, n, values, start_val, running, connectors, labels,
                   prev>>
    /\ UNCHANGED others

\* db_production_variance, lines 393-403.
Loop_db_production_variance == LoopInline("db_production_variance")

\* db_pl_waterfall, lines 466-476.
Loop_db_pl_waterfall == LoopInline("db_pl_waterfall")

\* db_cash_flow, lines 588-598.
Loop_db_cash_flow == LoopInline("db_cash_flow")

\* The layout loop is exhausted: ax.bar draws the bars, the label loop
\* `for i, (bar, v) in enumerate(zip(bars, values))` writes one label per
\* bar, and the connector loop starts (lines 360-365 and their copies).
DrawBars ==
    /\ pc = "loop" /\ i = LoopCount(values)
    /\ labels' = [k \in 1..Len(bar_vals) |->
                     LabelText(fn, k - 1, n, values, bar_vals, running)]
    /\ pc' = "connect" /\ i' = 0
    /\ UNCHANGED <<fn, n, values, start_val, running, run, bottoms, bar_vals,
                   colors, connectors, prev, before, after>>
    /\ UNCHANGED others

\* One iteration of `for i in range(n - 1)` (lines 368-370 and copies).
Connect ==
    /\ pc = "connect" /\ i < ConnectorCount(n)
    /\ connectors' = Append(connectors, ConnectorTop(bottoms, bar_vals, i))
    /\ i' = i + 1
    /\ UNCHANGED <<fn, pc, n, values, start_val, running, run, bottoms,
                   bar_vals, colors, labels, prev, before, after>>
    /\ UNCHANGED others

\* range(n - 1) is exhausted; the rest of the function only styles the axes.
Finish ==
    /\ pc = "connect" /\ i >= ConnectorCount(n)
    /\ pc' = "done"
    /\ UNCHANGED <<fn, n, values, start_val, running, run, i, bottoms,
                   bar_vals, colors, connectors, labels, prev, before, after>>
    /\ UNCHANGED others

\* What a completed call was given and what it drew.
CallRecord ==
    [values |-> values, n |-> n, start_val |-> start_val,
     bottoms |-> bottoms, bar_vals |-> bar_vals, colors |-> colors,
     labels |-> labels, connectors |-> connectors]

\* The function returns; its locals are gone.  A completed call of
\* _waterfall may be recorded in prev, and the next call then repeats it.
Return ==
    /\ pc = "done"
    /\ \/ prev' = <<>>
       \/ fn = "_waterfall" /\ prev = <<>> /\ prev' = <<CallRecord>>
    /\ fn' = "none" /\ pc' = "idle"
    /\ n' = 0 /\ values' = <<>> /\ start_val' = 0
    /\ running' = 0 /\ run' = 0
    /\ Fresh
    /\ UNCHANGED others

Next ==
    \/ Call_waterfall
    \/ Call_waterfall_again
    \/ Loop_waterfall
    \/ Call_db_production_variance
    \/ Call_db_pl_waterfall
    \/ Call_db_cash_flow
    \/ Loop_db_production_variance
    \/ Loop_db_pl_waterfall
    \/ Loop_db_cash_flow
    \/ DrawBars
    \/ Connect
    \/ Finish
    \/ Return

Spec == Init /\ [][Next]_allvars

\* ------------------------------------------------------------------------
\* _waterfall on floats that need not be finite.  A float is a pair: a
\* finite number <<"fin", x>>, an infinity <<"inf", 1>> or <<"inf", -1>>, or
\* <<"nan", 0>>.  The operators are Python's float operations on them.

\* Bound: the longest step list of floats handed to _waterfall.
MaxLenNonFinite == 3

FFin(x) == <<"fin", x>>
FInf(sgn) == <<"inf", sgn>>
FNaN == <<"nan", 0>>

IsFinite(a) == a[1] = "fin"

\* The floats a caller may pass, and the step lists of floats.
FloatVals == {FFin(x) : x \in Vals} \cup {FInf(1), FInf(-1), FNaN}
FloatLists == UNION {[1..k -> FloatVals] : k \in 0..MaxLenNonFinite}

\* a + b: nan is contagious, and inf + (-inf) is nan.
FAdd(a, b) ==
    IF a[1] = "nan" \/ b[1] = "nan" THEN FNaN
    ELSE IF a[1] = "inf" /\ b[1] = "inf" THEN (IF a[2] = b[2] THEN a ELSE FNaN)
    ELSE IF a[1] = "inf" THEN a
    ELSE IF b[1] = "inf" THEN b
    ELSE FFin(a[2] + b[2])

\* a >= 0: every comparison with nan is False.
FGeZero(a) == a[1] # "nan" /\ a[2] >= 0

\* a != 0: nan and the infinities differ from 0.
FNeZero(a) == a[1] # "fin" \/ a[2] # 0

\* abs(a).
FAbs(a) == IF a[1] = "nan" THEN FNaN ELSE <<a[1], Abs(a[2])>>

\* f"{a:.1f}" and, with plus, f"{a:+.1f}".
FFormat(a, plus) ==
    IF a[1] = "fin" THEN
        IF plus THEN PlusFormat(a[2], 1, 1) ELSE FormatFixed(a[2], 1, 1)
    ELSE IF a[1] = "nan" THEN (IF plus THEN "+nan" ELSE "nan")
    ELSE IF a[2] < 0 THEN "-inf"
    ELSE IF plus THEN "+inf" ELSE "inf"

\* A call of _waterfall with floats (lines 333-339).
Call_waterfall_nonfinite ==
    /\ pc = "idle" /\ prev = <<>>
    /\ \E vs \in FloatLists, sv \in FloatVals :
          /\ values' = vs
          /\ n' = Len(vs)
          /\ start_val' = sv
          /\ running' = WaterfallInitialRunning(sv, vs)
    /\ fn' = "_waterfall" /\ pc' = "loop" /\ run' = 0
    /\ prev' = <<>>
    /\ Fresh
    /\ UNCHANGED others

\* One iteration of the layout loop of _waterfall on floats (lines 340-358).
Loop_waterfall_nonfinite ==
    /\ fn = "_waterfall" /\ pc = "loop" /\ i < LoopCount(values)
    /\ LET v == values[i + 1] IN
          IF i = 0 THEN
              /\ bottoms' = Append(bottoms, FFin(0))
              /\ bar_vals' = Append(bar_vals, v)
              /\ colors' = Append(colors, ACCENT_BLUE)
              /\ running' = running
          ELSE IF i = n - 1 THEN
              /\ bottoms' = Append(bottoms, FFin(0))
              /\ bar_vals' = Append(bar_vals,
                                    IF FNeZero(v) THEN FAdd(running, v)
                                    ELSE running)
              /\ colors' = Append(colors, ACCENT_BLUE)
              /\ running' = running
          ELSE IF FGeZero(v) THEN
              /\ bottoms' = Append(bottoms, running)
              /\ bar_vals' = Append(bar_vals, v)
              /\ colors' = Append(colors, GREEN)
              /\ running' = FAdd(running, v)
          ELSE
              /\ bottoms' = Append(bottoms, FAdd(running, v))
              /\ bar_vals' = Append(bar_vals, FAbs(v))
              /\ colors' = Append(colors, RED)
              /\ running' = FAdd(running, v)
    /\ values' = ValuesAfterStep(values, i, bar_vals'[i + 1])
    /\ before' = Append(before, running)
    /\ after' = Append(after, running')
    /\ i' = i + 1
    /\ UNCHANGED <<fn, pc, n, start_val, run, connectors, labels, prev>>
    /\ UNCHANGED others

\* ax.bar and the label loop of _waterfall on floats (lines 360-365).
DrawBars_nonfinite ==
    /\ pc = "loop" /\ i = LoopCount(values)
    /\ labels' = [k \in 1..Len(bar_vals) |->
                     IF k - 1 > 0 /\ k - 1 < n - 1
                     THEN "$" \o FFormat(values[k], TRUE) \o "M"
                     ELSE "$" \o FFormat(bar_vals[k], FALSE) \o "M"]
    /\ pc' = "connect" /\ i' = 0
    /\ UNCHANGED <<fn, n, values, start_val, running, run, bottoms, bar_vals,
                   colors, connectors, prev, before, after>>
    /\ UNCHANGED others

\* One iteration of the connector loop of _waterfall on floats
\* (lines 368-370).
Connect_nonfinite ==
    /\ pc = "connect" /\ i < ConnectorCount(n)
    /\ connectors' = Append(connectors, FAdd(bottoms[i + 1], bar_vals[i + 1]))
    /\ i' = i + 1
    /\ UNCHANGED <<fn, pc, n, values, start_val, running, run, bottoms,
                   bar_vals, colors, labels, prev, before, after>>
    /\ UNCHANGED others

NextNonFinite ==
    \/ Call_waterfall_nonfinite
    \/ Call_waterfall_again
    \/ Loop_waterfall_nonfinite
    \/ DrawBars_nonfinite
    \/ Connect_nonfinite
    \/ Finish
    \/ Return

SpecNonFinite == Init /\ [][NextNonFinite]_allvars

\* ------------------------------------------------------------------------
\* The two generator scripts: the import of the module (which creates
\* OUTPUT_DIR), main() of Dashboards/generate_mockups.py and the `__main__`
\* block of CubeViews/generate_mockups.py, which call their generators one
\* after the other, and a generator's rendering and its save.

\* Bounds: the number of seeds the operating system may hand to numpy, and
\* the number of generators a caller that imported the module calls.
MaxEntropy == 2
MaxCalls == 2

\* main(): `generators` (Dashboards, lines 1258-1275).
DashboardGenerators ==
    <<"db_executive_summary", "db_consolidation_status",
      "db_plant_performance", "db_production_variance", "db_pl_waterfall",
      "db_balance_sheet", "db_cash_flow", "db_budget_vs_actual",
      "db_rolling_forecast_trend", "db_people_planning", "db_capex_tracker",
      "db_intercompany_recon", "db_data_quality_scorecard", "db_kpi_cockpit",
      "db_account_recon_status", "db_supply_chain_analytics">>

\* The calls of the `__main__` block (CubeViews, lines 698-707).
CubeViewGenerators ==
    <<"create_revenue_entry", "create_opex_entry", "create_headcount_entry",
      "create_capex_entry", "create_production_entry", "create_pl_report",
      "create_bs_report", "create_cf_report", "create_bva_report",
      "create_consolidation_report">>

Generators(s) ==
    IF s = "Dashboards" THEN DashboardGenerators ELSE CubeViewGenerators

\* The name a generator saves under: fname of its _save(fig, fname) in
\* Dashboards, save_name of its draw_cubeview(...) in CubeViews.
SaveArgument(g) ==
    CASE g = "db_executive_summary" -> "DB_ExecutiveSummary.png"
      [] g = "db_consolidation_status" -> "DB_ConsolidationStatus.png"
      [] g = "db_plant_performance" -> "DB_PlantPerformance.png"
      [] g = "db_production_variance" -> "DB_ProductionVariance.png"
      [] g = "db_pl_waterfall" -> "DB_PLWaterfall.png"
      [] g = "db_balance_sheet" -> "DB_BalanceSheet.png"
      [] g = "db_cash_flow" -> "DB_CashFlow.png"
      [] g = "db_budget_vs_actual" -> "DB_BudgetVsActual.png"
      [] g = "db_rolling_forecast_trend" -> "DB_RollingForecastTrend.png"
      [] g = "db_people_planning" -> "DB_PeoplePlanning.png"
      [] g = "db_capex_tracker" -> "DB_CAPEXTracker.png"
      [] g = "db_intercompany_recon" -> "DB_IntercompanyRecon.png"
      [] g = "db_data_quality_scorecard" -> "DB_DataQualityScorecard.png"
      [] g = "db_kpi_cockpit" -> "DB_KPICockpit.png"
      [] g = "db_account_recon_status" -> "DB_AccountReconStatus.png"
      [] g = "db_supply_chain_analytics" -> "DB_SupplyChainAnalytics.png"
      [] g = "create_revenue_entry" -> "CV_DataEntry_Revenue"
      [] g = "create_opex_entry" -> "CV_DataEntry_OPEX"
      [] g = "create_headcount_entry" -> "CV_DataEntry_Headcount"
      [] g = "create_capex_entry" -> "CV_DataEntry_CAPEX"
      [] g = "create_production_entry" -> "CV_DataEntry_Production"
      [] g = "create_pl_report" -> "CV_Report_PL"
      [] g = "create_bs_report" -> "CV_Report_BS"
      [] g = "create_cf_report" -> "CV_Report_CF"
      [] g = "create_bva_report" -> "CV_Report_BvA"
      [] g = "create_consolidation_report" -> "CV_Report_Consolidation"

\* OUTPUT_DIR: the directory "Mockups" beside the script (Dashboards line
\* 34, CubeViews line 14), written relative to the repository.
OutputDir(s) == s \o "/Mockups"

\* Variant: every save goes to draw_cubeview's default save_name, 'mockup'.
SavePathDefaultName(s, g) == OutputDir(s) \o "/" \o "mockup.png"

\* The path savefig writes: os.path.join(OUTPUT_DIR, fname) in _save
\* (Dashboards line 93), os.path.join(OUTPUT_DIR, f"{save_name}.png") in
\* draw_cubeview (CubeViews line 271).
SavePath(s, g) ==
    OutputDir(s) \o "/" \o
        (IF s = "Dashboards" THEN SaveArgument(g)
         ELSE SaveArgument(g) \o ".png")

\* Variant: os.makedirs is called without exist_ok.
ExistOkDefault == FALSE

\* os.makedirs(OUTPUT_DIR, exist_ok=True) (Dashboards line 35, CubeViews
\* line 15).
ExistOk == TRUE

\* Variant: the caller catches the exception and goes on to the next call.
AfterRaiseContinue == "between"

\* Where an exception raised under a generator leaves the script: neither
\* the loop of main() (lines 1277-1279) nor the module level
\* (lines 1284-1285) has a try statement, so the script ends.
AfterRaise == "raised"

\* Variant: enumerate(generators) counts from 0.
ProgressIndexFromZero(k) == k

\* i of `for i, gen in enumerate(generators, 1)` when k generators have
\* been run (line 1277).
ProgressIndex(k) == k + 1

\* f"{x:2d}".
Pad2(x) == IF x < 10 THEN " " \o ToString(x) ELSE ToString(x)

\* print(f"[{i:2d}/16] {gen.__name__}...") (line 1278).
ProgressLine(x, g) == "[" \o Pad2(x) \o "/16] " \o g \o "..."

\* The lines printed before the first generator (Dashboards lines
\* 1255-1256, CubeViews line 697).
Header(s) ==
    IF s = "Dashboards"
    THEN <<"Generating OneStream Dashboard Mockups...",
           "Output directory: " \o OutputDir(s) \o "\n">>
    ELSE <<"Generating OneStream CubeView Mockups...\n">>

\* The lines printed after the last generator (Dashboards line 1281,
\* CubeViews lines 708-709).
Footer(s) ==
    IF s = "Dashboards"
    THEN <<"\nAll 16 dashboard mockups generated in " \o OutputDir(s)>>
    ELSE <<"\nAll mockups saved to: " \o OutputDir(s), "Done!">>

\* The line a save prints (Dashboards line 96, CubeViews line 274).
SavedLine(s, g) ==
    IF s = "Dashboards" THEN "  Saved " \o SaveArgument(g)
    ELSE "  Saved: " \o SavePath(s, g)

\* numpy's process-global generator.  Its state is the seed of its stream
\* and the count of numbers drawn from the stream since.
OsSeeded(e) == [seed |-> <<"os", e>>, pos |-> 0]

\* np.random.seed(k).
Seeded(k) == [seed |-> <<"seed", k>>, pos |-> 0]

\* k numbers drawn.
Advance(r, k) == [r EXCEPT !.pos = @ + k]

\* db_executive_summary: one np.random.randn(12) per KPI tile, six tiles
\* (lines 106-116).
SparkTiles == 6
SparkPoints == 12

\* db_budget_vs_actual: np.random.seed(42), then one np.random.uniform of
\* len(entities) x len(metrics) numbers (lines 690-693).
HeatmapSeed == 42
HeatmapEntities == 8
HeatmapMetrics == 5

\* db_kpi_cockpit: np.random.seed(123), then one np.random.randn(12) per
\* KPI, twelve KPIs (lines 1036-1070).
CockpitSeed == 123
CockpitTiles == 12
CockpitSparkPoints == 12

\* The state of the generator at each of `count` draws of `per` numbers.
Draws(r, count, per) == [k \in 1..count |-> Advance(r, (k - 1) * per)]

\* The states of the global generator at which generator g draws its
\* random data, entered with the global generator in state r.
DrawsOf(g, r) ==
    CASE g = "db_executive_summary" -> Draws(r, SparkTiles, SparkPoints)
      [] g = "db_budget_vs_actual" ->
            Draws(Seeded(HeatmapSeed), 1, HeatmapEntities * HeatmapMetrics)
      [] g = "db_kpi_cockpit" ->
            Draws(Seeded(CockpitSeed), CockpitTiles, CockpitSparkPoints)
      [] OTHER -> <<>>

\* The state in which generator g leaves the global generator.
RngAfter(g, r) ==
    CASE g = "db_executive_summary" -> Advance(r, SparkTiles * SparkPoints)
      [] g = "db_budget_vs_actual" ->
            Advance(Seeded(HeatmapSeed), HeatmapEntities * HeatmapMetrics)
      [] g = "db_kpi_cockpit" ->
            Advance(Seeded(CockpitSeed), CockpitTiles * CockpitSparkPoints)
      [] OTHER -> r

\* The generator being executed.
Current == calls[Len(calls)]

\* The module is loaded: its top level runs os.makedirs (Dashboards lines
\* 8-37, CubeViews lines 6-34).
Import ==
    /\ mpc = "import"
    /\ IF dir # "absent" /\ ~ExistOk
       THEN /\ mpc' = "raised" /\ raisedIn' = "os.makedirs"
            /\ dir' = dir
       ELSE /\ mpc' = "start" /\ raisedIn' = raisedIn
            /\ dir' = IF dir = "absent" THEN "created" ELSE dir
    /\ UNCHANGED <<script, caller, gi, saved, out, entropy, rng, calls,
                   content>>
    /\ UNCHANGED <<vars, cvars>>

\* The script prints its header (Dashboards lines 1284-1285 and 1254-1256,
\* CubeViews lines 696-697).
Main_start ==
    /\ caller = "main" /\ mpc = "start"
    /\ out' = out \o Header(script)
    /\ mpc' = "between"
    /\ UNCHANGED <<script, caller, gi, dir, saved, raisedIn, entropy, rng,
                   calls, content>>
    /\ UNCHANGED <<vars, cvars>>

\* The script calls its next generator; main() prints the progress line
\* first (Dashboards lines 1277-1279, CubeViews lines 698-707).
Main_call ==
    /\ caller = "main" /\ mpc = "between"
    /\ gi < Len(Generators(script))
    /\ LET g == Generators(script)[gi + 1] IN
          /\ out' = IF script = "Dashboards"
                    THEN Append(out, ProgressLine(ProgressIndex(gi), g))
                    ELSE out
          /\ calls' = Append(calls, g)
    /\ mpc' = "gen"
    /\ UNCHANGED <<script, caller, gi, dir, saved, raisedIn, entropy, rng,
                   content>>
    /\ UNCHANGED <<vars, cvars>>

\* A caller that imported Dashboards/generate_mockups.py calls one of its
\* generators (any of lines 102, 187, ..., 1175).
Any_call ==
    /\ caller = "any" /\ mpc \in {"start", "between"}
    /\ Len(calls) < MaxCalls
    /\ \E k \in 1..Len(DashboardGenerators) :
          calls' = Append(calls, DashboardGenerators[k])
    /\ mpc' = "gen"
    /\ UNCHANGED <<script, caller, gi, dir, saved, out, raisedIn, entropy,
                   rng, content>>
    /\ UNCHANGED <<vars, cvars>>

\* The generator builds its figure, drawing its random data from the global
\* generator (the body of each db_* up to its _save, of each create_* up to
\* the savefig of draw_cubeview).
Render ==
    /\ mpc = "gen"
    /\ content' = Append(content, DrawsOf(Current, rng))
    /\ rng' = RngAfter(Current, rng)
    /\ mpc' = "save"
    /\ UNCHANGED <<script, caller, gi, dir, saved, out, raisedIn, entropy,
                   calls>>
    /\ UNCHANGED <<vars, cvars>>

\* _save: savefig, plt.close, print, return to the caller (Dashboards
\* lines 92-97; CubeViews lines 271-275).  savefig raises when the
\* directory is missing.
Save ==
    /\ mpc = "save"
    /\ IF dir = "absent"
       THEN /\ mpc' = AfterRaise /\ raisedIn' = Current
            /\ UNCHANGED <<saved, out, gi>>
       ELSE /\ saved' = Append(saved, SavePath(script, Current))
            /\ out' = Append(out, SavedLine(script, Current))
            /\ gi' = gi + 1
            /\ mpc' = "between" /\ raisedIn' = raisedIn
    /\ UNCHANGED <<script, caller, dir, entropy, rng, calls, content>>
    /\ UNCHANGED <<vars, cvars>>

\* An exception is raised while a generator renders or saves (matplotlib or
\* the file system fails).  No frame between the generator and the top
\* level handles it.
Raise ==
    /\ mpc \in {"gen", "save"}
    /\ mpc' = AfterRaise
    /\ raisedIn' = Current
    /\ gi' = IF AfterRaise = "raised" THEN gi ELSE gi + 1
    /\ UNCHANGED <<script, caller, dir, saved, out, entropy, rng, calls,
                   content>>
    /\ UNCHANGED <<vars, cvars>>

\* The list is exhausted: the script prints its last lines and ends
\* (Dashboards line 1281, CubeViews lines 708-709).
Main_finish ==
    /\ caller = "main" /\ mpc = "between"
    /\ gi = Len(Generators(script))
    /\ out' = out \o Footer(script)
    /\ mpc' = "done"
    /\ UNCHANGED <<script, caller, gi, dir, saved, raisedIn, entropy, rng,
                   calls, content>>
    /\ UNCHANGED <<vars, cvars>>

\* `python generate_mockups.py` in either directory; OUTPUT_DIR may be left
\* from an earlier run.
InitMain ==
    /\ WaterfallIdle /\ CubeOff
    /\ script \in {"Dashboards", "CubeViews"}
    /\ caller = "main" /\ mpc = "import" /\ gi = 0
    /\ dir \in {"absent", "present"}
    /\ saved = <<>> /\ out = <<>> /\ raisedIn = ""
    /\ entropy \in 1..MaxEntropy
    /\ rng = OsSeeded(entropy)
    /\ calls = <<>> /\ content = <<>>

NextMain ==
    \/ Import
    \/ Main_start
    \/ Main_call
    \/ Render
    \/ Save
    \/ Raise
    \/ Main_finish

SpecMain == InitMain /\ [][NextMain]_allvars

\* The interpreter executes the script's next statement for as long as
\* there is one.
FairSpecMain == SpecMain /\ WF_allvars(NextMain)

\* `import generate_mockups` of Dashboards by a caller that then calls
\* generators of its own choice.
InitAnyOrder ==
    /\ WaterfallIdle /\ CubeOff
    /\ script = "Dashboards"
    /\ caller = "any" /\ mpc = "import" /\ gi = 0
    /\ dir \in {"absent", "present"}
    /\ saved = <<>> /\ out = <<>> /\ raisedIn = ""
    /\ entropy \in 1..MaxEntropy
    /\ rng = OsSeeded(entropy)
    /\ calls = <<>> /\ content = <<>>

NextAnyOrder ==
    \/ Import
    \/ Any_call
    \/ Render
    \/ Save
    \/ Raise

SpecAnyOrder == InitAnyOrder /\ [][NextAnyOrder]_allvars

\* ------------------------------------------------------------------------
\* _waterfall beside the inline copies of its loop.  _waterfall is called
\* the way the copies use their list (start_val = values[0], last value 0);
\* then the loop of a copy is run on the list of that call, its literals
\* (vals, and the number `running` starts from, which in each dashboard is
\* written equal to vals[0]) standing for that list.

\* vals of an inline copy.
ValsOf(f) ==
    CASE f = "db_production_variance" -> PV_vals
      [] f = "db_pl_waterfall" -> PL_vals
      [] f = "db_cash_flow" -> CF_vals

\* The lists of the comparison: the step lists of at least two steps whose
\* last value is 0, and the lists of the three dashboards.
CopyLists ==
    {vs \in ValueLists : Len(vs) >= 2 /\ vs[Len(vs)] = 0}
        \cup {PV_vals, PL_vals, CF_vals}

\* _waterfall(ax, categories, values, start_val = values[0], ...)
\* (lines 333-339).
Call_waterfall_like_inline ==
    /\ pc = "idle" /\ prev = <<>>
    /\ \E vs \in CopyLists :
          /\ values' = vs
          /\ n' = Len(vs)
          /\ start_val' = vs[1]
          /\ running' = WaterfallInitialRunning(vs[1], vs)
    /\ fn' = "_waterfall" /\ pc' = "loop" /\ run' = 0
    /\ prev' = <<>>
    /\ Fresh
    /\ UNCHANGED others

\* The number `running` starts from in copy f run on vs: the literal of the
\* dashboard on its own list, the first value of any other list.
SeedFor(f, vs) == IF vs = ValsOf(f) THEN SeedOf(f) ELSE vs[1]

\* The head of inline copy f, run on the list of the recorded call.
RunInlineOn(f) ==
    /\ pc = "idle" /\ prev # <<>>
    /\ fn' = f /\ pc' = "loop"
    /\ values' = prev[1].values
    /\ n' = prev[1].n
    /\ start_val' = 0
    /\ running' = PrecomputedRunning(SeedFor(f, prev[1].values),
                                     prev[1].values)
    /\ run' = prev[1].values[1]
    /\ prev' = prev
    /\ Fresh
    /\ UNCHANGED others

\* db_production_variance, lines 383-392.
Copy_db_production_variance == RunInlineOn("db_production_variance")

\* db_pl_waterfall, lines 458-465.
Copy_db_pl_waterfall == RunInlineOn("db_pl_waterfall")

\* db_cash_flow, lines 581-587.
Copy_db_cash_flow == RunInlineOn("db_cash_flow")

NextCopies ==
    \/ Call_waterfall_like_inline
    \/ Loop_waterfall
    \/ Copy_db_production_variance
    \/ Copy_db_pl_waterfall
    \/ Copy_db_cash_flow
    \/ Loop_db_production_variance
    \/ Loop_db_pl_waterfall
    \/ Loop_db_cash_flow
    \/ DrawBars
    \/ Connect
    \/ Finish
    \/ Return

SpecCopies == Init /\ [][NextCopies]_allvars

\* ------------------------------------------------------------------------
\* The y axis of the three dashboards, and the table of
\* db_production_variance.

\* set_ylim(0, 10) in tenths (line 424), set_ylim(0, 6.5) in hundredths
\* (line 497), set_ylim(0, 52) in tenths (line 615).
PV_ylim == 100
PL_ylim == 650
CF_ylim == 520

\* Variant: every chart is given the limit of the P&L bridge, 6.5.
YLimCopied(f) == (PL_ylim * ScaleOf(f)) \div ScaleOf("db_pl_waterfall")

\* The upper limit of the y axis of dashboard f, in the units of f.
YLim(f) ==
    CASE f = "db_production_variance" -> PV_ylim
      [] f = "db_pl_waterfall" -> PL_ylim
      [] f = "db_cash_flow" -> CF_ylim

\* `data` of the "Variance Detail by Plant" table (lines 431-438): the
\* Budget, Actual and Variance cells of each plant, in hundredths of $M
\* ("2.40" is 240, "-0.05" is -5, "+0.07" is 7).
PV_table ==
    << <<240, 235, -5>>, <<185, 192, 7>>, <<150, 148, -2>>,
       <<95, 98, 3>>, <<90, 128, 38>>, <<50, 49, -1>> >>

\* ------------------------------------------------------------------------
\* draw_cubeview of CubeViews/generate_mockups.py: the loop over the data
\* rows and, in it, the loop over the value cells of a row.  The rows are
\* read as the loop reaches them.

\* Bounds: the number of value columns, the number of data rows, and the
\* length of a cell's text.
MaxCols == 2
MaxRows == 2
MaxTextLen == 3

\* Brand colours (CubeViews lines 20-34) and the default text colour
\* (line 237).
ROW_LIGHT == "#FFFFFF"
ROW_ALT == "#F0F4F8"
INPUT_CELL_BG == "#FFFDE7"
NEGATIVE_RED == "#DC3545"
POSITIVE_GREEN == "#28A745"
SECTION_BG == "#E3EBF3"
BOLD_ROW_BG == "#D6E4F0"
DefaultTextColor == "#343A40"

\* The values input_cols and variance_col_indices may take.
OptionalCols == {NoCols} \cup {SomeCols(S) : S \in SUBSET (0..(MaxCols - 1))}

\* Python's truth value of None or a set.
Truthy(o) == o.given /\ o.cols # {}

\* The rows: row.get('bold'), row.get('section'), row.get('separator') and
\* len(row.get('values')).
Rows ==
    [bold : BOOLEAN, section : BOOLEAN, separator : BOOLEAN,
     nvalues : 0..MaxCols]

\* Characters of a text.
DigitChars == {"0", "1", "2", "3", "4", "5", "6", "7", "8", "9"}
TextChars == {"(", "-", "+", "%", ".", " ", "0", "1", "N"}

\* Every text of at most MaxTextLen characters.
Texts == UNION {[1..k -> TextChars] : k \in 0..MaxTextLen}

\* Numbers given as values, not as text: -1, 0 and 1.
NumVals == {NumVal(<<"-", "1">>), NumVal(<<"0">>), NumVal(<<"1">>)}

\* Every value of a cell, and the values of the kinds the reports hold:
\* '(1)', '-1', '1%', '0.0%', 'N/A', '', '1' and numbers.
AnyVals == {StrVal(t) : t \in Texts} \cup NumVals
SampleVals ==
    {StrVal(t) : t \in {<<"(", "1", ")">>, <<"-", "1">>, <<"1", "%">>,
                        <<"0", ".", "0", "%">>, <<"N", "/", "A">>, <<>>,
                        <<"1">>}}
        \cup NumVals

\* s.replace(c, '') for each character c of cs.
Remove(s, cs) == SelectSeq(s, LAMBDA ch : ch \notin cs)

\* s.strip(), on texts whose only whitespace is the space.
RECURSIVE LStrip(_)
LStrip(s) == IF s # <<>> /\ Head(s) = " " THEN LStrip(Tail(s)) ELSE s

RECURSIVE RStrip(_)
RStrip(s) ==
    IF s # <<>> /\ s[Len(s)] = " "
    THEN RStrip(SubSeq(s, 1, Len(s) - 1))
    ELSE s

Strip(s) == RStrip(LStrip(s))

\* s.isdigit().
IsDigit(s) == s # <<>> /\ \A k \in 1..Len(s) : s[k] \in DigitChars

\* s.startswith(ch) and ch in s.
StartsWith(s, ch) == s # <<>> /\ s[1] = ch
Contains(s, ch) == \E k \in 1..Len(s) : s[k] = ch

\* float(s) on a text without letters, underscores or exponent: whether it
\* parses (no ValueError) and, if it does, the sign of the number.  The
\* text is stripped, may begin with one sign, and is otherwise digits with
\* at most one point and at least one digit.
ParseFloat(s) ==
    LET t == Strip(s)
        signed == t # <<>> /\ t[1] \in {"+", "-"}
        body == IF signed THEN Tail(t) ELSE t
        points == Cardinality({k \in 1..Len(body) : body[k] = "."})
        digits == Remove(body, {"."})
        ok == IsDigit(digits) /\ points <= 1
        nonzero == \E k \in 1..Len(digits) : digits[k] # "0"
    IN  [ok |-> ok,
         sgn |-> IF ~ok \/ ~nonzero THEN 0
                 ELSE IF t[1] = "-" THEN -1 ELSE 1]

\* Variant: the test is `cond and c_idx in input_cols` alone, bold and
\* section rows included.
IsInputAnyRow(ic, c, bold, section) == Truthy(ic) /\ c \in ic.cols

\* `input_cols and c_idx in input_cols and not is_bold and not is_section`
\* (line 212).
IsInput(ic, c, bold, section) ==
    Truthy(ic) /\ c \in ic.cols /\ ~bold /\ ~section

\* bg of a row (lines 184-191).
RowBackground(r, bold, section) ==
    IF section THEN SECTION_BG
    ELSE IF bold THEN BOLD_ROW_BG
    ELSE IF r % 2 = 0 THEN ROW_LIGHT
    ELSE ROW_ALT

\* cell_bg of a value cell (lines 214-221).
CellBackground(isin, section, bold, rowbg) ==
    IF isin THEN INPUT_CELL_BG
    ELSE IF section THEN SECTION_BG
    ELSE IF bold THEN BOLD_ROW_BG
    ELSE rowbg

\* Variant: the test is `pct_val >= 0`, so a zero percentage is green.
PercentColorZeroGreen(sgn) ==
    IF sgn < 0 THEN NEGATIVE_RED ELSE POSITIVE_GREEN

\* The colour of a parsed percentage (lines 246-249).
PercentColor(sgn) ==
    IF sgn < 0 THEN NEGATIVE_RED
    ELSE IF sgn > 0 THEN POSITIVE_GREEN
    ELSE DefaultTextColor

\* txt_color of a value cell (lines 237-251).
TextColor(show, vci, c, v) ==
    IF show /\ Truthy(vci) /\ c \in vci.cols THEN
        IF v.isstr /\ StartsWith(v.text, "(") THEN NEGATIVE_RED
        ELSE IF v.isstr /\ StartsWith(v.text, "-") THEN NEGATIVE_RED
        ELSE IF /\ v.isstr
                /\ Contains(v.text, "%")
                /\ IsDigit(Strip(Remove(v.text, {"%", ".", "-"})))
        THEN LET p == ParseFloat(Strip(Remove(v.text, {"%"})))
             IN  IF p.ok THEN PercentColor(p.sgn) ELSE DefaultTextColor
        ELSE DefaultTextColor
    ELSE DefaultTextColor

\* draw_cubeview(..., rows, input_cols, show_variance_colors,
\* variance_col_indices) has drawn the title, the bars and the column
\* headers and enters the loop over the rows (lines 56-168).
InitCubeView ==
    /\ WaterfallIdle /\ RunOff
    /\ cpc = "rows"
    /\ input_cols \in OptionalCols
    /\ show_variance_colors \in BOOLEAN
    /\ variance_col_indices \in OptionalCols
    /\ r_idx = -1
    /\ row = [bold |-> FALSE, section |-> FALSE, separator |-> FALSE,
              nvalues |-> 0]
    /\ c_idx = -1 /\ val = StrVal(<<>>)
    /\ bg = "" /\ cell_bg = "" /\ txt_color = ""

\* The next row is a separator: a line is drawn and the loop continues
\* (lines 169-182).
Row_separator ==
    /\ cpc = "rows" /\ r_idx + 1 < MaxRows
    /\ \E rw \in Rows : rw.separator /\ row' = rw
    /\ r_idx' = r_idx + 1
    /\ UNCHANGED <<cpc, input_cols, show_variance_colors,
                   variance_col_indices, c_idx, val, bg, cell_bg, txt_color>>
    /\ UNCHANGED <<vars, rvars>>

\* The next row is a data row: its background is chosen and its label cell
\* drawn (lines 169-206).
Row_label ==
    /\ cpc = "rows" /\ r_idx + 1 < MaxRows
    /\ \E rw \in Rows :
          /\ ~rw.separator
          /\ row' = rw
          /\ bg' = RowBackground(r_idx + 1, rw.bold, rw.section)
    /\ r_idx' = r_idx + 1
    /\ cpc' = "cells" /\ c_idx' = -1
    /\ UNCHANGED <<input_cols, show_variance_colors, variance_col_indices,
                   val, cell_bg, txt_color>>
    /\ UNCHANGED <<vars, rvars>>

\* The next value cell of the row, its value one of vals: the rectangle
\* and the text of the cell (lines 210-257).
DrawValueCell(vals) ==
    /\ cpc = "cells" /\ c_idx + 1 < row.nvalues
    /\ \E v \in vals :
          /\ val' = v
          /\ txt_color' = TextColor(show_variance_colors,
                                    variance_col_indices, c_idx + 1, v)
    /\ c_idx' = c_idx + 1
    /\ cell_bg' = CellBackground(
                      IsInput(input_cols, c_idx + 1, row.bold, row.section),
                      row.section, row.bold, bg)
    /\ UNCHANGED <<cpc, input_cols, show_variance_colors,
                   variance_col_indices, r_idx, row, bg>>
    /\ UNCHANGED <<vars, rvars>>

\* A value cell with a value of the kinds the reports hold.
ValueCell == DrawValueCell(SampleVals)

\* A value cell with any value.
ValueCell_any_text == DrawValueCell(AnyVals)

\* The values of the row are exhausted (line 210).  The locals of the cell
\* loop are not read again before they are assigned.
Row_end ==
    /\ cpc = "cells" /\ c_idx + 1 >= row.nvalues
    /\ cpc' = "rows"
    /\ c_idx' = -1 /\ val' = StrVal(<<>>)
    /\ cell_bg' = "" /\ txt_color' = ""
    /\ UNCHANGED <<input_cols, show_variance_colors, variance_col_indices,
                   r_idx, row, bg>>
    /\ UNCHANGED <<vars, rvars>>

\* The rows are exhausted: the border is drawn and the figure saved
\* (lines 259-275).
Finish_cubeview ==
    /\ cpc = "rows"
    /\ cpc' = "done"
    /\ UNCHANGED <<input_cols, show_variance_colors, variance_col_indices,
                   r_idx, row, c_idx, val, bg, cell_bg, txt_color>>
    /\ UNCHANGED <<vars, rvars>>

NextCubeView ==
    \/ Row_separator
    \/ Row_label
    \/ ValueCell
    \/ Row_end
    \/ Finish_cubeview

SpecCubeView == InitCubeView /\ [][NextCubeView]_allvars

\* draw_cubeview called without input_cols, as the reports call it
\* (lines 503-505), about to draw the last value cell of a plain first row
\* whose earlier cells, if any, hold the empty string.
InitCellText ==
    /\ WaterfallIdle /\ RunOff
    /\ cpc = "cells"
    /\ input_cols = NoCols
    /\ show_variance_colors \in BOOLEAN
    /\ variance_col_indices \in OptionalCols
    /\ r_idx = 0
    /\ \E last \in 0..(MaxCols - 1) :
          /\ c_idx = last - 1
          /\ row = [bold |-> FALSE, section |-> FALSE, separator |-> FALSE,
                    nvalues |-> last + 1]
          /\ cell_bg = IF last = 0 THEN "" ELSE ROW_LIGHT
          /\ txt_color = IF last = 0 THEN "" ELSE DefaultTextColor
    /\ val = StrVal(<<>>)
    /\ bg = ROW_LIGHT

NextCellText ==
    \/ ValueCell_any_text
    \/ Row_end
    \/ Finish_cubeview

SpecCellText == InitCellText /\ [][NextCellText]_allvars

\* ------------------------------------------------------------------------
\* Vocabulary of the properties.  Bars and steps are numbered from 1 here:
\* bar k is the bar of step k - 1 of the code.

Min(a, b) == IF a <= b THEN a ELSE b
Max(a, b) == IF a >= b THEN a ELSE b

\* Bar k has been emitted.
Emitted(k) == k \in 1..Len(bar_vals)

\* Bar k is an interior bar (neither the first nor the last of n).
InteriorBar(k) == 1 < k /\ k < n

\* Sum of the interior values of a step list.
SumInterior(vs) == FoldInterior(vs, 2, 0)

\* The top of bar k.
Top(k) == bottoms[k] + bar_vals[k]

\* The level at which bar k begins: the total accumulated before its step,
\* and for the last bar the ending total it displays.
EntryPoint(k) == IF k = n THEN bar_vals[n] ELSE before[k]

\* C1: for n >= 2 steps given to _waterfall, the height of the final bar is
\* values[0] plus the sum of the interior values.
C1_FinalTotalIsStartPlusInterior ==
    (fn = "_waterfall" /\ pc = "done" /\ n >= 2)
        => bar_vals[n] = values[1] + SumInterior(values)

\* C2: every interior bar, of either sign, spans exactly the interval
\* between the running total before its step and the running total after
\* it (which is the total before plus the step's delta); a decrease bar has
\* its top at the total before and its bottom at the total after.  In
\* _waterfall and in the three inline copies.
C2_InteriorBarSpansStep ==
    \A k \in 1..Len(bar_vals) :
        InteriorBar(k) =>
            /\ after[k] = before[k] + values[k]
            /\ bottoms[k] = Min(before[k], after[k])
            /\ Top(k) = Max(before[k], after[k])
            /\ values[k] < 0 => (Top(k) = before[k] /\ bottoms[k] = after[k])

\* C2 witness: _waterfall has laid out an increase followed by a decrease.
C2_Witness ==
    /\ fn = "_waterfall" /\ pc = "done" /\ n = 4
    /\ values[2] > 0 /\ values[3] < 0

\* C3 as stated: the top of every interior bar, of either sign, is the
\* running total after its step.
C3_TopIsRunningAfter ==
    \A k \in 1..Len(bar_vals) : InteriorBar(k) => Top(k) = after[k]

\* C3 as amended: the top of an interior bar with delta >= 0 is the running
\* total after its step; for an interior bar with delta < 0 the bottom is
\* the running total after the step and the top is the total before it.
C3_TopOrBottomIsRunningAfter ==
    \A k \in 1..Len(bar_vals) :
        InteriorBar(k) =>
            IF values[k] >= 0
            THEN Top(k) = after[k]
            ELSE bottoms[k] = after[k] /\ Top(k) = before[k]

\* C3 witness: an interior decrease has been laid out by _waterfall.
C3_Witness ==
    /\ fn = "_waterfall" /\ pc = "loop" /\ n = 3 /\ i = 2
    /\ values[2] < 0

\* C4: in _waterfall, once bar 0 is emitted the running total is values[0],
\* the height of bar 0, and the first interior bar begins at the top of
\* bar 0, whatever the arguments.
C4_RunningInitialisedFromFirstStep ==
    (fn = "_waterfall" /\ n >= 2 /\ Emitted(1)) =>
        /\ after[1] = values[1]
        /\ after[1] = bar_vals[1]
        /\ (Emitted(2) /\ InteriorBar(2)) => before[2] = Top(1)

\* C5: in _waterfall the value of the last step is ignored; the height of
\* the final bar is the accumulated running total alone.
C5_LastValueIgnored ==
    (fn = "_waterfall" /\ pc = "done" /\ n >= 2) => bar_vals[n] = running

\* C6: in each inline copy the pre-computed `running` (the END bar's height
\* and label) equals the total `run` the layout loop has accumulated when
\* it reaches the last step, and the END bar is emitted with that height.
C6_EndBarEqualsLoopTotal ==
    (fn \in Inline /\ pc # "idle") =>
        /\ i >= n - 1 => running = run
        /\ Emitted(n) => (bar_vals[n] = run /\ bar_vals[n] = running)

\* C6 witness: db_pl_waterfall has emitted its END bar.
C6_Witness == fn = "db_pl_waterfall" /\ pc = "connect" /\ Emitted(n)

\* C7: the first and the last bar are ACCENT_BLUE whatever their value, an
\* interior bar with delta >= 0 is GREEN and one with delta < 0 is RED.
C7_ColourByPositionAndSign ==
    \A k \in 1..Len(colors) :
        colors[k] = IF k = 1 \/ k = n THEN ACCENT_BLUE
                    ELSE IF values[k] >= 0 THEN GREEN ELSE RED

\* C7 witness: _waterfall has coloured a negative first value, a zero
\* delta, a negative delta and a negative last value.
C7_Witness ==
    /\ fn = "_waterfall" /\ pc = "done" /\ n = 4
    /\ values[1] < 0 /\ values[2] = 0 /\ values[3] < 0 /\ values[4] < 0

\* C8 as stated: the height of every bar, START, interior and END, is
\* non-negative for every input.
C8_AllHeightsNonNegative ==
    n >= 2 => \A k \in 1..Len(bar_vals) : bar_vals[k] >= 0

\* C8 as amended: the height of every interior bar is non-negative (it is
\* the magnitude of the delta); the START bar's height is values[0] itself,
\* sign included.
C8_InteriorHeightsNonNegative ==
    \A k \in 1..Len(bar_vals) :
        /\ InteriorBar(k) => (bar_vals[k] >= 0 /\ bar_vals[k] = Abs(values[k]))
        /\ k = 1 => bar_vals[k] = values[k]

\* C8 witness: _waterfall has emitted a negative START bar and an interior
\* decrease.
C8_Witness ==
    /\ fn = "_waterfall" /\ pc = "done" /\ n = 3
    /\ values[1] < 0 /\ values[2] < 0

\* C9: when categories and values both have length n >= 2 the layout emits
\* exactly n bars, bar k for step k in input order: each of bottoms,
\* bar_vals and colors grows by one entry per iteration and has n entries
\* when the loop is over.
C9_OneBarPerStep ==
    n >= 2 =>
        /\ pc = "loop" =>
              (Len(bottoms) = i /\ Len(bar_vals) = i /\ Len(colors) = i)
        /\ pc \in {"connect", "done"} =>
              (Len(bottoms) = n /\ Len(bar_vals) = n /\ Len(colors) = n)

\* C9 witness: _waterfall has finished a list of four steps.
C9_Witness == fn = "_waterfall" /\ pc = "done" /\ n = 4 /\ Len(values) = 4

\* C10: for every i in 0..n-2 the connector drawn from bar i lies at the top
\* of bar i, and that level is where bar i+1 begins (the running total
\* after step i, or for the END bar the ending total).
C10_ConnectorMeetsNextBar ==
    \A k \in 1..Len(connectors) :
        /\ connectors[k] = Top(k)
        /\ connectors[k] = EntryPoint(k + 1)

\* C11: an interior delta of exactly 0 is classified as an increase (GREEN)
\* and gives a zero-height bar whose bottom is the current running total,
\* and it leaves the running total unchanged.
C11_ZeroDeltaIsFlatIncrease ==
    \A k \in 1..Len(bar_vals) :
        (InteriorBar(k) /\ values[k] = 0) =>
            /\ colors[k] = GREEN
            /\ bar_vals[k] = 0
            /\ bottoms[k] = before[k]
            /\ after[k] = before[k]

\* C11 witness: _waterfall has laid out a zero delta on a non-zero running
\* total.
C11_Witness ==
    /\ fn = "_waterfall" /\ pc = "done" /\ n = 3
    /\ values[2] = 0 /\ before[2] # 0

\* C12: exactly one connector segment is drawn per adjacent pair of bars
\* (i, i+1), i in 0..n-2, whatever the heights: one per iteration of the
\* connector loop, n - 1 in all, so that a zero-height interior bar has the
\* connector of its left pair and that of its right pair.
C12_OneConnectorPerPair ==
    n >= 2 =>
        /\ pc = "connect" => Len(connectors) = i
        /\ pc = "done" =>
              /\ Len(connectors) = n - 1
              /\ \A k \in 1..n :
                    (InteriorBar(k) /\ bar_vals[k] = 0) =>
                        (k - 1 \in DOMAIN connectors /\ k \in DOMAIN connectors)

\* C12 witness: _waterfall has finished a chart with a zero-height interior
\* bar.
C12_Witness ==
    /\ fn = "_waterfall" /\ pc = "done" /\ n = 4
    /\ values[3] = 0 /\ bar_vals[3] = 0

\* C13: a call of the waterfall layout with fewer than 2 steps ends in an
\* error: it emits no bar and does not run to completion.
C13_FewerThanTwoStepsRejected ==
    (fn = "_waterfall" /\ n < 2) =>
        (bar_vals = <<>> /\ pc \notin {"connect", "done"})

\* Some step of a list of floats is nan or infinite.
HasNonFinite(vs) == \E k \in 1..Len(vs) : ~IsFinite(vs[k])

\* C14: a call of the waterfall layout with a nan or an infinite value in
\* some step ends in an error surfaced to the caller: it emits no bar and
\* does not run to completion.
C14_NonFiniteRejected ==
    (fn = "_waterfall" /\ n >= 2 /\ HasNonFinite(values)) =>
        (bar_vals = <<>> /\ pc \notin {"connect", "done"})

\* C15: for a 2-step input [START = s, END = placeholder] the layout emits
\* two anchor bars, both with bottom 0 and height s.
C15_TwoStepsGiveTwoEqualAnchors ==
    (fn = "_waterfall" /\ pc = "done" /\ n = 2) =>
        /\ bottoms = <<0, 0>>
        /\ bar_vals = <<values[1], values[1]>>
        /\ colors = <<ACCENT_BLUE, ACCENT_BLUE>>

\* C16: in db_pl_waterfall the computed ending total, the height and the
\* label of the last bar, is 4.73 (473 hundredths of $M).
C16_PLEndingTotal ==
    fn = "db_pl_waterfall" =>
        /\ running = 473
        /\ Emitted(n) => bar_vals[n] = 473
        /\ pc \in {"connect", "done"} => labels[n] = "$4.73M"

\* C16 witness: db_pl_waterfall has drawn and labelled its last bar.
C16_Witness ==
    fn = "db_pl_waterfall" /\ pc = "done" /\ Len(labels) = PL_ncats

SignChar(v) == IF v >= 0 THEN "+" ELSE "-"

\* The text of an amount of function f.
Amount(x) == FormatFixed(x, ScaleOf(fn), DecimalsOf(fn))

\* C20: in all four copies the label of the first bar shows the start
\* value, the label of the last bar shows the computed ending total (the
\* height of the END bar), and the label of an interior bar shows the
\* step's delta as an explicit sign, '+' or '-', and its magnitude.
C20_LabelsShowAnchorsAndSignedDeltas ==
    \A k \in 1..Len(labels) :
        /\ k = 1 => labels[k] = "$" \o Amount(values[1]) \o "M"
        /\ k = n => labels[k] = "$" \o Amount(bar_vals[n]) \o "M"
        /\ InteriorBar(k) =>
              labels[k] = (IF fn = "_waterfall" THEN "$" ELSE "")
                              \o SignChar(values[k])
                              \o Amount(Abs(values[k])) \o "M"

\* C20 witness: db_production_variance has labelled an increase and a
\* decrease.
C20_Witness ==
    /\ fn = "db_production_variance" /\ pc = "done"
    /\ labels[1] = "$8.1M" /\ labels[2] = "+0.6M" /\ labels[4] = "-0.1M"
    /\ labels[9] = "$8.5M"

\* ------------------------------------------------------------------------
\* Properties of the scripts.

\* The elements of a sequence.
Range(s) == {s[k] : k \in 1..Len(s)}

\* What generator g draws its random data from when it is the first
\* generator the process runs.
ContentWhenFirst(g) == DrawsOf(g, OsSeeded(entropy))

\* C21: no mutable state is shared across chart invocations: what a
\* dashboard generator renders (here, the random data it draws) is the same
\* whichever generators ran before it, the process-global random generator
\* included; it is what the generator renders when it runs first.
C21_ContentIndependentOfHistory ==
    \A k \in 1..Len(content) : content[k] = ContentWhenFirst(calls[k])

\* C22: within one run every generator saves to a path of its own: the 16
\* generators of Dashboards have 16 distinct paths, the 10 of CubeViews 10
\* distinct paths, and no path is written twice in a run.
C22_DistinctFileNames ==
    /\ \A a, b \in 1..Len(saved) : a # b => saved[a] # saved[b]
    /\ Len(DashboardGenerators) = 16
    /\ Cardinality({SavePath("Dashboards", g) :
                       g \in Range(DashboardGenerators)}) = 16
    /\ Len(CubeViewGenerators) = 10
    /\ Cardinality({SavePath("CubeViews", g) :
                       g \in Range(CubeViewGenerators)}) = 10

\* C22 witness: the CubeViews script has ended with its ten files saved.
C22_Witness == script = "CubeViews" /\ mpc = "done" /\ Len(saved) = 10

\* The progress lines main() prints in a complete run.
ProgressLines ==
    {ProgressLine(k, DashboardGenerators[k]) :
        k \in 1..Len(DashboardGenerators)}

\* The order of a run of main(): the generators invoked so far are the
\* first ones of the list, in its order, each once; the k-th progress line
\* carries index k; each generator that returned saved one image, its own;
\* and a run that ends without an exception has invoked all 16 and saved
\* 16 images.
MainRunsInOrder ==
    script = "Dashboards" =>
        /\ Len(calls) <= 16
        /\ \A k \in 1..Len(calls) : calls[k] = DashboardGenerators[k]
        /\ SelectSeq(out, LAMBDA l : l \in ProgressLines)
              = [k \in 1..Len(calls) |->
                    ProgressLine(k, DashboardGenerators[k])]
        /\ Len(saved) = gi
        /\ Len(saved) \in {Len(calls), Len(calls) - 1}
        /\ \A k \in 1..Len(saved) :
              saved[k] = SavePath("Dashboards", DashboardGenerators[k])
        /\ mpc = "done" => (Len(calls) = 16 /\ Len(saved) = 16)

\* C23: a run of main() invokes each of the 16 generators exactly once, in
\* the listed order with progress index 1..16, each generator saves exactly
\* one image, and the run ends: with an exception, or else with exactly 16
\* images saved.
C23_EachGeneratorOnceInOrder ==
    /\ []MainRunsInOrder
    /\ <>(raisedIn # "" \/ (mpc = "done" /\ Len(saved) = Len(calls)))

\* C23 witness: main() has ended with 16 images saved and its last line
\* printed.
C23_Witness ==
    /\ script = "Dashboards" /\ mpc = "done" /\ Len(saved) = 16
    /\ out[Len(out)] = Footer("Dashboards")[1]

\* C24: an exception raised under a generator is fatal: the script has
\* ended and takes no further step, the generator that raised is the last
\* one invoked, and no closing line of the script was printed.
C24_FailureIsFatal ==
    raisedIn # "" =>
        /\ mpc = "raised"
        /\ ~ENABLED NextMain
        /\ raisedIn # "os.makedirs" => (calls # <<>> /\ Current = raisedIn)
        /\ Len(saved) < Len(Generators(script))
        /\ \A l \in Range(Footer(script)) : l \notin Range(out)

\* C24 witness: db_cash_flow raised after six dashboards were saved.
C24_Witness ==
    /\ script = "Dashboards" /\ mpc = "raised"
    /\ raisedIn = "db_cash_flow" /\ Len(saved) = 6

\* C25: in both scripts OUTPUT_DIR exists once the module is loaded, whether
\* it was there before or not, os.makedirs never raises because it was
\* there, and every save finds the directory.
C25_DirectoryExistsBeforeSave ==
    /\ raisedIn # "os.makedirs"
    /\ mpc # "import" => dir # "absent"
    /\ mpc = "save" => dir # "absent"
    /\ saved # <<>> => dir # "absent"

\* C25 witness: a run that found the directory in place has saved images.
C25_Witness == dir = "present" /\ Len(saved) = 3

\* ------------------------------------------------------------------------
\* Properties of the copies of the layout and of the dashboards' data.

\* C26: for every step list of length n >= 2, an inline copy of the loop
\* lays out the same bottoms, heights and colours as _waterfall called on
\* that list with start_val = values[0] and a last value of 0.
C26_InlineCopiesAgreeWithWaterfall ==
    (fn \in Inline /\ pc = "done" /\ prev # <<>>) =>
        /\ n >= 2
        /\ prev[1].values = values
        /\ prev[1].start_val = values[1] /\ values[n] = 0
        /\ bottoms = prev[1].bottoms
        /\ bar_vals = prev[1].bar_vals
        /\ colors = prev[1].colors

\* C26 witness: the loop of db_cash_flow has laid out the dashboard's own
\* list after _waterfall did.
C26_Witness ==
    /\ fn = "db_cash_flow" /\ pc = "done" /\ prev # <<>>
    /\ values = CF_vals /\ Len(bar_vals) = CF_ncats

\* C27: on the data of the three dashboards every bar lies inside the y
\* range of its chart: bottom >= 0 and bottom + height <= the upper limit.
C27_BarsInsideYRange ==
    fn \in Inline =>
        \A k \in 1..Len(bar_vals) : bottoms[k] >= 0 /\ Top(k) <= YLim(fn)

\* C27 witness: db_pl_waterfall has laid out all its bars, the tallest
\* reaching 5.36.
C27_Witness ==
    /\ fn = "db_pl_waterfall" /\ pc = "done" /\ Len(bar_vals) = PL_ncats
    /\ Top(2) = 536

\* Sum of column c of a table, from row k on.
RECURSIVE SumColumn(_, _, _)
SumColumn(t, c, k) ==
    IF k > Len(t) THEN 0 ELSE t[k][c] + SumColumn(t, c, k + 1)

\* C28: in db_production_variance the START value, 8.1, is the sum of the
\* table's Budget column, the ending total, 8.5, the sum of its Actual
\* column, and the sum of the interior deltas, +0.4, the sum of its
\* Variance column.
C28_WaterfallAgreesWithTable ==
    (fn = "db_production_variance" /\ pc = "done") =>
        /\ bar_vals[1] = 81
        /\ 10 * bar_vals[1] = SumColumn(PV_table, 1, 1)
        /\ bar_vals[n] = 85
        /\ 10 * bar_vals[n] = SumColumn(PV_table, 2, 1)
        /\ SumInterior(values) = 4
        /\ 10 * SumInterior(values) = SumColumn(PV_table, 3, 1)

\* C28 witness: db_production_variance has drawn its waterfall.
C28_Witness ==
    /\ fn = "db_production_variance" /\ pc = "done"
    /\ Len(bar_vals) = PV_ncats /\ Len(connectors) = PV_ncats - 1

\* ------------------------------------------------------------------------
\* Properties of the grid of draw_cubeview.

\* A value cell has been drawn and is the latest.
CellDrawn == cpc = "cells" /\ c_idx >= 0

\* The cell is in a variance column and variance colours are on.
InVarianceColumn ==
    /\ show_variance_colors
    /\ variance_col_indices.given
    /\ c_idx \in variance_col_indices.cols

\* The value is a string that starts with '(' or '-'.
LeadingParenOrMinus ==
    val.isstr /\ val.text # <<>> /\ val.text[1] \in {"(", "-"}

\* The text of the value without its '%' signs and surrounding spaces.
PercentBody == Strip(Remove(val.text, {"%"}))

\* A decimal numeral: digits with at most one point and at least one
\* digit, after an optional '-'.
IsNumeral(t) ==
    LET body == IF t # <<>> /\ t[1] = "-" THEN Tail(t) ELSE t
    IN  /\ \A k \in 1..Len(body) : body[k] \in DigitChars \cup {"."}
        /\ Cardinality({k \in 1..Len(body) : body[k] = "."}) <= 1
        /\ \E k \in 1..Len(body) : body[k] \in DigitChars

\* The value is a percentage string: a string with a '%' that is otherwise
\* a decimal numeral.
PercentString ==
    val.isstr /\ (\E k \in 1..Len(val.text) : val.text[k] = "%")
        /\ IsNumeral(PercentBody)

\* The sign of the number a percentage string denotes.
PercentSign ==
    IF \A k \in 1..Len(PercentBody) : PercentBody[k] \in {"0", ".", "-"}
    THEN 0
    ELSE IF PercentBody[1] = "-" THEN -1 ELSE 1

\* C29 as stated: the text of a value cell takes a variance colour only in
\* a variance column with variance colours on; there a string starting
\* with '(' or '-' is red, a percentage string that parses to a positive
\* number is green, and every other value keeps the default colour.
C29_VarianceColourAsStated ==
    CellDrawn =>
        txt_color =
            IF InVarianceColumn /\ LeadingParenOrMinus THEN NEGATIVE_RED
            ELSE IF InVarianceColumn /\ PercentString /\ PercentSign > 0
            THEN POSITIVE_GREEN
            ELSE DefaultTextColor

\* C29 as amended: as stated, and a percentage string that parses to a
\* negative number is red as well, also when its '-' is not its first
\* character.
C29_VarianceColourBySign ==
    CellDrawn =>
        txt_color =
            IF InVarianceColumn /\ LeadingParenOrMinus THEN NEGATIVE_RED
            ELSE IF InVarianceColumn /\ PercentString /\ PercentSign > 0
            THEN POSITIVE_GREEN
            ELSE IF InVarianceColumn /\ PercentString /\ PercentSign < 0
            THEN NEGATIVE_RED
            ELSE DefaultTextColor

\* C29 witness: '1%' in a variance column has been drawn in green.
C29_Witness ==
    /\ CellDrawn /\ InVarianceColumn
    /\ val = StrVal(<<"1", "%">>) /\ txt_color = POSITIVE_GREEN

\* C30: the background of a value cell is the input-cell background when
\* the column is in input_cols and the row is neither bold nor a section;
\* otherwise the section background for a section row, otherwise the
\* bold-row background for a bold row, otherwise the zebra colour of the
\* parity of the row index.
C30_CellBackgroundPrecedence ==
    CellDrawn =>
        cell_bg =
            IF /\ input_cols.given /\ c_idx \in input_cols.cols
               /\ ~row.bold /\ ~row.section
            THEN INPUT_CELL_BG
            ELSE IF row.section THEN SECTION_BG
            ELSE IF row.bold THEN BOLD_ROW_BG
            ELSE IF r_idx % 2 = 0 THEN ROW_LIGHT
            ELSE ROW_ALT

\* C30 witness: a bold row's cell in an input column has the bold-row
\* background, in the second row of the grid.
C30_Witness ==
    /\ CellDrawn /\ r_idx = 1
    /\ input_cols.given /\ c_idx \in input_cols.cols
    /\ row.bold /\ ~row.section /\ cell_bg = BOLD_ROW_BG

====
